---------------------------- MODULE Spec2Model ----------------------------
(***************************************************************************)
(* A model of tsh (src/user/tsh.c), a small shell for an xv6-like system:  *)
(* the line buffer, the lexer, the parser, the executor and the driver     *)
(* loop, together with the part of the operating system the executor      *)
(* drives (process table, descriptor tables, fork / exec / wait / exit).   *)
(*                                                                         *)
(* C pointers into the command line buffer are modelled as 0-based offsets *)
(* into the buffer; a C string is read from the buffer at the time of use, *)
(* so that aliasing of the buffer by names and arguments is preserved.     *)
(***************************************************************************)
EXTENDS Integers, Sequences, FiniteSets, TLC

(***************************************************************************)
(* Sizes.  The TSH_ limits are set in user/tsh.h; the model gives them     *)
(* small values.                                                           *)
(***************************************************************************)
TSH_MAX_CMD_LINE_LENGTH == 10
TSH_MAX_NUM_TOKENS == 8
TSH_MAX_NUM_ARGUMENTS == 2
TSH_MAX_PIPELINE_LENGTH == 3
TSH_MAX_CMD_LIST_LENGTH == 4

\* sizeof(Token): an enum and a pointer (struct Token)
SIZEOF_TOKEN == 16

\* number of processes the system can hold (fork fails beyond it)
MaxProcs == 3
\* number of command lines the input stream delivers before end-of-file
MaxLines == 2
\* descriptors per process
NumFds == 6

\* the null pointer, and the failure return value of system calls
NULL == -1

\* the NUL character
NUL == ""

\* whitespace[] (the vertical tab has no TLA+ string escape; no modelled input
\* contains it) and symbols[]
Whitespace == {" ", "\t", "\r", "\n"}
Symbols == {"<", "|", ">", "&", ";"}

(***************************************************************************)
(* enum TokenType, enum RedirectionType, enum CommandType                  *)
(***************************************************************************)
TOKEN_INVALID == "TOKEN_INVALID"
TOKEN_WORD == "TOKEN_WORD"
TOKEN_PIPE == "TOKEN_PIPE"
TOKEN_LIST == "TOKEN_LIST"
TOKEN_REDIRECT_OUTPUT == "TOKEN_REDIRECT_OUTPUT"
TOKEN_REDIRECT_OUTPUT_APPEND == "TOKEN_REDIRECT_OUTPUT_APPEND"
TOKEN_REDIRECT_INPUT == "TOKEN_REDIRECT_INPUT"
TOKEN_BACKGROUND == "TOKEN_BACKGROUND"

REDIRECT_INPUT == "REDIRECT_INPUT"
REDIRECT_OUTPUT == "REDIRECT_OUTPUT"
REDIRECT_APPEND == "REDIRECT_APPEND"
REDIRECT_NONE == "REDIRECT_NONE"

CMD_INVALID == "CMD_INVALID"
CMD_EMPTY == "CMD_EMPTY"
CMD_SIMPLE == "CMD_SIMPLE"
CMD_PIPELINE == "CMD_PIPELINE"
CMD_LIST == "CMD_LIST"

(***************************************************************************)
(* The flag words are modelled as the sets of the bit positions that are   *)
(* set: bitwise or is union, bitwise and is intersection.                  *)
(***************************************************************************)
CMD_SYNTAX_ERROR == {0}
CMD_TOO_MANY_ARGUMENTS == {1}
CMD_MISSING_REDIRECTION_DESTINATION == {2}
CMD_ARGUMENT_AFTER_REDIRECT == {3}
CMD_PIPELINE_TOO_LONG == {0, 1, 2, 3}
CMD_TOO_MANY_COMMANDS == {4}
CMD_UNKNOWN_TYPE == {5}
CMD_BACKGROUND_MODE == {16}

\* the mask 0xffff of the error bits
ErrorMask == 0 .. 15

(***************************************************************************)
(* Line buffer                                                             *)
(***************************************************************************)
BufIdx == 0 .. (TSH_MAX_CMD_LINE_LENGTH - 1)

\* ClearLine: the buffer filled with NUL, len 0
ClearLine == [len |-> 0, buffer |-> [i \in BufIdx |-> NUL]]

\* the character a pointer into the buffer points at
CharAt(buf, i) == IF i \in BufIdx THEN buf[i] ELSE NUL

\* strlen of the string at offset off of the buffer
RECURSIVE StrLenAt(_, _)
StrLenAt(buf, off) ==
    IF CharAt(buf, off) = NUL THEN 0 ELSE 1 + StrLenAt(buf, off + 1)

\* the C string at offset off of the buffer, as a sequence of characters
CStr(buf, off) == [k \in 1 .. StrLenAt(buf, off) |-> buf[off + k - 1]]

(***************************************************************************)
(* ReadLine: stream is what read(0, ...) can deliver, character by         *)
(* character; the empty stream is end-of-file.  n characters are stored    *)
(* so far (nleft = sizeof(buffer) - n).                                    *)
(***************************************************************************)
RECURSIVE ReadLoop(_, _, _)
ReadLoop(stream, buf, n) ==
    IF n >= TSH_MAX_CMD_LINE_LENGTH THEN [n |-> n, buffer |-> buf]
    ELSE IF stream = << >> THEN [n |-> n, buffer |-> buf]
    ELSE IF Head(stream) = "\n" THEN [n |-> n, buffer |-> buf]
    ELSE ReadLoop(Tail(stream), [buf EXCEPT ![n] = Head(stream)], n + 1)

\* the line after ReadLine on a cleared line; overrun tells that the
\* terminating NUL was written behind the end of the buffer
ReadLine(line, stream) ==
    LET r == ReadLoop(stream, line.buffer, 0) IN
    [len |-> r.n,
     buffer |-> IF r.n \in BufIdx THEN [r.buffer EXCEPT ![r.n] = NUL]
                ELSE r.buffer,
     overrun |-> r.n \notin BufIdx]

(***************************************************************************)
(* Tokenize.  A token is [type, value], value an offset into the buffer.   *)
(* The list of tokens is a sequence: C index k is element k + 1.           *)
(***************************************************************************)
Token(type, value) == [type |-> type, value |-> value]

\* the bound that Tokenize checks idx against: sizeof(tl->tokens)
TokenizeLimit == TSH_MAX_NUM_TOKENS * SIZEOF_TOKEN

RECURSIVE SkipWhitespace(_, _, _)
SkipWhitespace(buf, p, tail) ==
    IF p < tail /\ CharAt(buf, p) \in Whitespace
    THEN SkipWhitespace(buf, p + 1, tail)
    ELSE p

\* WordEnd that stops at whitespace only
RECURSIVE WordEndAtWhitespace(_, _, _)
WordEndAtWhitespace(buf, p, tail) ==
    IF p < tail /\ CharAt(buf, p) \notin Whitespace
    THEN WordEndAtWhitespace(buf, p + 1, tail)
    ELSE p

RECURSIVE WordEnd(_, _, _)
WordEnd(buf, p, tail) ==
    IF p < tail /\ CharAt(buf, p) \notin Whitespace
                /\ CharAt(buf, p) \notin Symbols
    THEN WordEnd(buf, p + 1, tail)
    ELSE p

\* the switch on next_char
SymbolType(c) ==
    CASE c = "<" -> TOKEN_REDIRECT_INPUT
      [] c = ">" -> TOKEN_REDIRECT_OUTPUT
      [] c = "|" -> TOKEN_PIPE
      [] c = "&" -> TOKEN_BACKGROUND
      [] c = ";" -> TOKEN_LIST
      [] OTHER -> TOKEN_INVALID

RECURSIVE TokenizeLoop(_, _, _, _)
\* the part of one pass of the loop that emits a symbol token; next_char
\* is the symbol at p (which a word before it may have overwritten by NUL)
TokenizeSymbol(buf, tail, p, next_char, toks) ==
    IF next_char = ">" /\ CharAt(buf, p + 1) = ">"
    THEN TokenizeLoop(buf, tail, p + 2,
                      Append(toks, Token(TOKEN_REDIRECT_OUTPUT_APPEND, p)))
    ELSE TokenizeLoop(buf, tail, p + 1,
                      Append(toks, Token(SymbolType(next_char), p)))

TokenizeLoop(buf, tail, p0, toks) ==
    IF ~(p0 < tail /\ Len(toks) < TokenizeLimit)
    THEN [buffer |-> buf, tokens |-> toks]
    ELSE
      LET p == SkipWhitespace(buf, p0, tail) IN
      IF p = tail THEN [buffer |-> buf, tokens |-> toks]
      ELSE IF CharAt(buf, p) \notin Symbols
      THEN \* a word token; the character that ends it is overwritten
           LET e == WordEnd(buf, p, tail)
               next_char == CharAt(buf, e)
               buf2 == IF e \in BufIdx THEN [buf EXCEPT ![e] = NUL] ELSE buf
               toks2 == Append(toks, Token(TOKEN_WORD, p))
           IN  IF next_char \in Whitespace
               THEN TokenizeLoop(buf2, tail, e + 1, toks2)
               ELSE IF next_char \in Symbols
               THEN TokenizeSymbol(buf2, tail, e, next_char, toks2)
               ELSE TokenizeLoop(buf2, tail, e, toks2)
      ELSE TokenizeSymbol(buf, tail, p, CharAt(buf, p), toks)

\* Tokenize: the buffer with the words terminated, and the token list
Tokenize(buf) == TokenizeLoop(buf, StrLenAt(buf, 0), 0, << >>)

(***************************************************************************)
(* Parser data: SimpleCommand, Redirection, Command, Pipeline and          *)
(* struct CommandData.  A Command's union member is <<"simple", k>> (a     *)
(* pointer to _simples[k]), <<"pipeline">> (a pointer to _pipeline) or     *)
(* <<"null">>.  The initial values are those of zero-filled static         *)
(* storage: the first enumerator of each enum, null pointers, 0.           *)
(***************************************************************************)
ArgIdx == 0 .. TSH_MAX_NUM_ARGUMENTS
SimpleIdx == 0 .. (TSH_MAX_CMD_LIST_LENGTH - 1)
StageIdx == 0 .. (TSH_MAX_PIPELINE_LENGTH - 1)

ZeroRedirection ==
    [source_fd |-> 0, dest_fd |-> 0, path |-> NULL, type |-> REDIRECT_INPUT]

ZeroSimpleCommand ==
    [type |-> CMD_INVALID, flag |-> {}, name |-> NULL, argc |-> 0,
     argv |-> [i \in ArgIdx |-> NULL],
     redirects |-> [i \in 0 .. 2 |-> ZeroRedirection]]

ZeroCommand == [type |-> CMD_INVALID, flag |-> {}, ptr |-> <<"null">>]

ZeroPipeline ==
    [type |-> CMD_INVALID, flag |-> {}, len |-> 0,
     commands |-> [i \in StageIdx |-> ZeroCommand]]

ZeroCommandData ==
    [n_simples |-> 0,
     simples |-> [k \in SimpleIdx |-> ZeroSimpleCommand],
     pipeline |-> ZeroPipeline,
     cmd |-> ZeroCommand]

\* the token at C index k of the token array
Tok(toks, k) == toks[k + 1]

RECURSIVE find_next_toke_with_type(_, _, _, _)
find_next_toke_with_type(token_type, toks, p, tail) ==
    IF p < tail
    THEN IF Tok(toks, p).type = token_type THEN p
         ELSE find_next_toke_with_type(token_type, toks, p + 1, tail)
    ELSE tail

(***************************************************************************)
(* ParseSimpleCommand                                                      *)
(***************************************************************************)
\* the argument loop: i arguments stored, p the next token
RECURSIVE ParseArguments(_, _, _, _, _)
ParseArguments(toks, p, tail, i, argv) ==
    IF p < tail /\ Tok(toks, p).type = TOKEN_WORD /\ i < TSH_MAX_NUM_ARGUMENTS
    THEN ParseArguments(toks, p + 1, tail, i + 1,
                        [argv EXCEPT ![i] = Tok(toks, p).value])
    ELSE [p |-> p, i |-> i, argv |-> argv]

\* the test that follows the argument loop
TooManyArguments(i) == i > TSH_MAX_NUM_ARGUMENTS

\* the redirections before the redirection loop
InitRedirects ==
    [i \in 0 .. 2 |->
        [source_fd |-> i, dest_fd |-> -1, path |-> NULL, type |-> REDIRECT_NONE]]

\* the redirection loop; returned tells that the loop left the function
RECURSIVE ParseRedirections(_, _, _, _)
ParseRedirections(toks, p, tail, simple) ==
    IF ~(p < tail) THEN [simple |-> simple, p |-> p, returned |-> FALSE]
    ELSE
      LET t == Tok(toks, p).type
          isRedirect == t \in {TOKEN_REDIRECT_INPUT, TOKEN_REDIRECT_OUTPUT,
                               TOKEN_REDIRECT_OUTPUT_APPEND}
          fd == IF t = TOKEN_REDIRECT_INPUT THEN 0 ELSE 1
          rtype == CASE t = TOKEN_REDIRECT_INPUT -> REDIRECT_INPUT
                     [] t = TOKEN_REDIRECT_OUTPUT -> REDIRECT_OUTPUT
                     [] OTHER -> REDIRECT_APPEND
      IN
      IF ~isRedirect
      THEN IF t = TOKEN_BACKGROUND
           THEN ParseRedirections(toks, p + 1, tail,
                    [simple EXCEPT !.flag = @ \cup CMD_BACKGROUND_MODE])
           ELSE ParseRedirections(toks, p + 1, tail,
                    [simple EXCEPT !.flag = @ \cup CMD_SYNTAX_ERROR])
      ELSE
        LET s1 == [simple EXCEPT !.redirects[fd].source_fd = fd,
                                 !.redirects[fd].type = rtype]
            q == p + 1
        IN  IF q < tail /\ Tok(toks, q).type = TOKEN_WORD
            THEN ParseRedirections(toks, p + 2, tail,
                     [s1 EXCEPT !.redirects[fd].path = Tok(toks, q).value])
            ELSE [simple |-> [s1 EXCEPT !.flag =
                                 @ \cup CMD_MISSING_REDIRECTION_DESTINATION],
                  p |-> p, returned |-> TRUE]

\* the command path: the type, and the name and the cleared flags when
\* the first token is a word
ParseName(toks, start, tail, simple) ==
    IF start < tail /\ Tok(toks, start).type = TOKEN_WORD
    THEN [simple EXCEPT !.type = CMD_SIMPLE,
                        !.name = Tok(toks, start).value,
                        !.flag = {}]
    ELSE [simple EXCEPT !.type = CMD_EMPTY]

\* the end of the function, r the result of the redirection loop
ParseSimpleEnd(tail, r) ==
    IF r.returned THEN r.simple
    ELSE IF r.p # tail
    THEN [r.simple EXCEPT !.flag =
            @ \cup CMD_ARGUMENT_AFTER_REDIRECT \cup CMD_SYNTAX_ERROR]
    ELSE r.simple

\* the function from the end of the argument loop on, a the result of the
\* argument loop
ParseSimpleRest(toks, tail, simple, a) ==
    IF TooManyArguments(a.i)
    THEN [simple EXCEPT !.argv = [a.argv EXCEPT ![a.i] = NULL],
                        !.argc = a.i,
                        !.flag = @ \cup CMD_TOO_MANY_ARGUMENTS]
    ELSE ParseSimpleEnd(tail,
           ParseRedirections(toks, a.p, tail,
               [simple EXCEPT !.argv = [a.argv EXCEPT ![a.i] = NULL],
                              !.argc = a.i,
                              !.redirects = InitRedirects]))

ParseSimpleCommand(toks, start, tail, simple) ==
    ParseSimpleRest(toks, tail, ParseName(toks, start, tail, simple),
                    ParseArguments(toks, start, tail, 0, simple.argv))

(***************************************************************************)
(* init_pipeline, set_command, ParsePipeline, ParseCommand                 *)
(***************************************************************************)
init_pipeline(pipeline) ==
    [pipeline EXCEPT !.type = CMD_PIPELINE, !.flag = {}, !.len = 0]

\* set_command(command, type, concrete_command): ptr is the pointer
\* concrete_command and flag the flag word of what it points to
set_command(command, type, ptr, flag) ==
    IF type \in {CMD_PIPELINE, CMD_SIMPLE}
    THEN [type |-> type, flag |-> flag, ptr |-> ptr]
    ELSE [command EXCEPT !.type = CMD_INVALID, !.flag = CMD_UNKNOWN_TYPE]

\* the first pipe token of the line: init_pipeline and the top command
StartPipeline(d) ==
    IF d.pipeline.len = 0
    THEN [d EXCEPT !.pipeline = init_pipeline(@),
                   !.cmd = IF d.cmd.type # CMD_LIST
                           THEN set_command(@, CMD_PIPELINE, <<"pipeline">>,
                                            init_pipeline(d.pipeline).flag)
                           ELSE @]
    ELSE d

\* simple, parsed into _simples[n_simples++], becomes the next stage
AddStage(d, simple) ==
    [d EXCEPT !.n_simples = @ + 1,
              !.simples[d.n_simples] = simple,
              !.pipeline.commands[d.pipeline.len] =
                  set_command(@, CMD_SIMPLE, <<"simple", d.n_simples>>,
                              simple.flag),
              !.pipeline.len = @ + 1]

\* one pass of the while loop that has found a pipe token at curr
ParseStage(toks, prev, curr, d) ==
    AddStage(StartPipeline(d),
             ParseSimpleCommand(toks, prev, curr, d.simples[d.n_simples]))

RECURSIVE ParsePipelineLoop(_, _, _, _, _)
ParsePipelineLoop(toks, prev, curr, tail, d) ==
    IF curr < tail /\ d.pipeline.len < TSH_MAX_PIPELINE_LENGTH
                   /\ d.n_simples < TSH_MAX_CMD_LIST_LENGTH
    THEN LET c == find_next_toke_with_type(TOKEN_PIPE, toks, prev, tail) IN
         IF c < tail
         THEN ParsePipelineLoop(toks, c + 1, c + 1, tail,
                                ParseStage(toks, prev, c, d))
         ELSE ParsePipelineLoop(toks, prev, c, tail, d)
    ELSE [prev |-> prev, d |-> d]

\* the check of too many commands
TooManyCommands(d) ==
    [d EXCEPT !.pipeline.flag = @ \cup CMD_TOO_MANY_COMMANDS,
              !.cmd.flag = @ \cup d.pipeline.flag \cup CMD_TOO_MANY_COMMANDS]

\* ParsePipelineEnd with a length check that lets a full pipeline pass
ParsePipelineEndOffByOne(d, k, simple) ==
    IF d.pipeline.len > TSH_MAX_PIPELINE_LENGTH
    THEN [d EXCEPT !.pipeline.flag = @ \cup CMD_PIPELINE_TOO_LONG,
                   !.cmd.flag = @ \cup d.pipeline.flag
                                  \cup CMD_PIPELINE_TOO_LONG]
    ELSE IF d.pipeline.len > 0
    THEN [d EXCEPT !.pipeline.len = @ + 1]
    ELSE d

\* the end of the function: the check of the length of the pipeline, and
\* the last element of the pipeline
ParsePipelineEnd(d, k, simple) ==
    IF d.pipeline.len >= TSH_MAX_PIPELINE_LENGTH
    THEN [d EXCEPT !.pipeline.flag = @ \cup CMD_PIPELINE_TOO_LONG,
                   !.cmd.flag = @ \cup d.pipeline.flag
                                  \cup CMD_PIPELINE_TOO_LONG]
    ELSE IF d.pipeline.len > 0
    THEN [d EXCEPT !.pipeline.commands[d.pipeline.len] =
                       set_command(@, CMD_SIMPLE, <<"simple", k>>, simple.flag),
                   !.pipeline.len = @ + 1]
    ELSE d

\* the last simple command, parsed into _simples[n_simples++]
ParseLast(d, simple) ==
    ParsePipelineEnd(
        [d EXCEPT !.n_simples = @ + 1,
                  !.simples[d.n_simples] = simple,
                  !.cmd = IF d.pipeline.len = 0
                          THEN set_command(@, CMD_SIMPLE,
                                           <<"simple", d.n_simples>>,
                                           simple.flag)
                          ELSE @],
        d.n_simples, simple)

\* the function after the while loop, l the result of the loop
ParsePipelineRest(toks, tail, l) ==
    IF l.d.n_simples >= TSH_MAX_CMD_LIST_LENGTH
    THEN TooManyCommands(l.d)
    ELSE ParseLast(l.d, ParseSimpleCommand(toks, l.prev, tail,
                                           l.d.simples[l.d.n_simples]))

ParsePipeline(toks, head, tail, cmd_data) ==
    ParsePipelineRest(toks, tail,
                      ParsePipelineLoop(toks, head, head, tail, cmd_data))

ParseCommand(toks, head, tail, cmd_data) ==
    ParsePipeline(toks, head, tail, cmd_data)

(***************************************************************************)
(* Strings of the executor                                                 *)
(***************************************************************************)
QUIT == <<"q", "u", "i", "t">>
EXIT == <<"e", "x", "i", "t">>
CD == <<"c", "d">>

Digits == <<"0", "1", "2", "3", "4", "5", "6", "7", "8", "9">>
IsDigit(c) == \E d \in 1 .. 10 : Digits[d] = c
DigitValue(c) == (CHOOSE d \in 1 .. 10 : Digits[d] = c) - 1

\* atoi of the C library of the system: the leading digits, no sign
RECURSIVE AtoiLoop(_, _)
AtoiLoop(str, n) ==
    IF str # << >> /\ IsDigit(Head(str))
    THEN AtoiLoop(Tail(str), n * 10 + DigitValue(Head(str)))
    ELSE n
atoi(str) == AtoiLoop(str, 0)

(***************************************************************************)
(* Descriptor tables.  A descriptor is <<"closed">>, <<"console">>,        *)
(* <<"pipe", id, "r">> or <<"pipe", id, "w">> (an end of pipe id), or      *)
(* <<"file", path, mode>>.                                                 *)
(***************************************************************************)
FdIdx == 0 .. (NumFds - 1)
Closed == <<"closed">>
Console == <<"console">>
O_RDONLY == "O_RDONLY"
O_WRONLY_CREATE == "O_WRONLY|O_CREATE"

IsOpen(t, fd) == fd \in FdIdx /\ t[fd] # Closed
FreeFds(t) == {fd \in FdIdx : t[fd] = Closed}
LowestFree(t) == CHOOSE fd \in FreeFds(t) : \A g \in FreeFds(t) : fd <= g

\* read(fd, ...) can deliver data: the descriptor is the console, the read
\* end of a pipe or a file opened for reading
Readable(t, fd) ==
    \/ t[fd] = Console
    \/ t[fd][1] = "pipe" /\ t[fd][3] = "r"
    \/ t[fd][1] = "file" /\ t[fd][3] = O_RDONLY

\* close(fd): a descriptor that is not open is left alone (close fails)
close(t, fd) == IF IsOpen(t, fd) THEN [t EXCEPT ![fd] = Closed] ELSE t

\* dup(fd): onto the lowest free descriptor; fails when fd is not open or
\* the table is full
dup(t, fd) ==
    IF IsOpen(t, fd) /\ FreeFds(t) # {}
    THEN [t EXCEPT ![LowestFree(t)] = t[fd]]
    ELSE t

\* open(path, mode): ok tells whether the file system opens the path; the
\* result is the new table and the descriptor returned (-1 on failure)
open(t, file, mode, ok) ==
    IF ok /\ FreeFds(t) # {}
    THEN [t |-> [t EXCEPT ![LowestFree(t)] = <<"file", file, mode>>],
          fd |-> LowestFree(t)]
    ELSE [t |-> t, fd |-> -1]

\* pipe(pipeFD): id names the new pipe; garbage is what the uninitialised
\* array pipeFD holds when pipe fails
pipe(t, id, garbage) ==
    IF Cardinality(FreeFds(t)) >= 2
    THEN LET r == LowestFree(t)
             t1 == [t EXCEPT ![r] = <<"pipe", id, "r">>]
             w == LowestFree(t1)
         IN  [t |-> [t1 EXCEPT ![w] = <<"pipe", id, "w">>], pipeFD |-> <<r, w>>]
    ELSE [t |-> t, pipeFD |-> garbage]

(***************************************************************************)
(* State                                                                   *)
(***************************************************************************)
Pids == 1 .. MaxProcs

VARIABLES
    proc,     \* process table: state, parent, position in the code, locals
    mem,      \* each process's copy of this_shell (struct ShellState)
    fds,      \* each process's descriptor table
    nRead,    \* number of ReadLine calls made so far on the input stream
    execLog   \* the exec calls made so far, in order

vars == <<proc, mem, fds, nRead, execLog>>

\* the string a char pointer of process p points at
Str(p, ptr) == IF ptr = NULL THEN << >> ELSE CStr(mem[p].cmdline.buffer, ptr)

NoProc ==
    [st |-> "unused", parent |-> 0, pc |-> "none", x |-> 0,
     pipeFD |-> <<-1, -1>>, ret |-> 0, returned |-> FALSE,
     forkFailed |-> FALSE, xstate |-> 0, line |-> 0, inp |-> << >>]

\* main: the shell state before the loop (static storage is zero-filled)
InitShell ==
    [should_run |-> TRUE, last_exit_status |-> 0,
     cmdline |-> ClearLine,
     tokens |-> << >>,
     cmd_data |-> ZeroCommandData]

Init ==
    /\ proc = [p \in Pids |->
                 IF p = 1 THEN [NoProc EXCEPT !.st = "running", !.pc = "main_loop"]
                 ELSE NoProc]
    /\ mem = [p \in Pids |-> InitShell]
    /\ fds = [p \in Pids |-> [fd \in FdIdx |-> IF fd <= 2 THEN Console ELSE Closed]]
    /\ nRead = 0
    /\ execLog = << >>

(***************************************************************************)
(* Input.  A stream is what the console delivers to one ReadLine call: a   *)
(* line and its newline, or nothing at all (end-of-file).  The lines are   *)
(* shorter than the line buffer.                                           *)
(***************************************************************************)
RECURSIVE WordsLine(_)
\* n one-letter words separated by blanks
WordsLine(n) == IF n <= 1 THEN <<"a">> ELSE <<"a", " ">> \o WordsLine(n - 1)

LineCandidates ==
    { << >>,
      <<" ">>,
      <<">", "o">>,
      QUIT,
      QUIT \o <<" ", "3">>,
      EXIT \o <<" ", "2">>,
      CD,
      <<"a">>,
      <<"a", "<", "i">>,
      <<"a", "&">>,
      <<"a", ">", "b", " ", "c">>,
      WordsLine(TSH_MAX_NUM_ARGUMENTS),
      WordsLine(TSH_MAX_NUM_ARGUMENTS + 1),
      <<"a", "|", "b">>,
      <<"a", ">", "|", "b">>,
      <<"a", "|", "b", "|", "c">> }

Lines == {l \in LineCandidates : Len(l) < TSH_MAX_CMD_LINE_LENGTH}

EndOfFile == << >>
InputStreams == {EndOfFile} \cup {l \o <<"\n">> : l \in Lines}

\* the input of the runs in which termination is checked: end-of-file, the
\* two forms of quit, an external command and a pipeline
QuitLines == {QUIT, QUIT \o <<" ", "3">>, <<"a">>, <<"a", "|", "b">>}
QuitStreams == {EndOfFile} \cup {l \o <<"\n">> : l \in QuitLines \cap Lines}

(***************************************************************************)
(* GetCommand                                                              *)
(***************************************************************************)
\* the branch of GetCommand for a line of more than 0 characters; tk is
\* the result of Tokenize
GetCommandParse(sh, ret, tk) ==
    [sh EXCEPT !.cmdline = [len |-> ret, buffer |-> tk.buffer],
               !.tokens = tk.tokens,
               !.cmd_data = ParseCommand(tk.tokens, 0, Len(tk.tokens),
                               [@ EXCEPT !.n_simples = 0, !.pipeline.len = 0])]

\* GetCommand, line the result of ReadLine
GetCommandLine(sh, line) ==
    IF 0 < line.len
    THEN GetCommandParse(sh, line.len, Tokenize(line.buffer))
    ELSE [sh EXCEPT !.cmdline = [len |-> line.len, buffer |-> line.buffer],
                    !.should_run = FALSE,
                    !.last_exit_status = line.len]

\* the shell state after GetCommand has read stream
GetCommand(sh, stream) == GetCommandLine(sh, ReadLine(ClearLine, stream))

Running(p) == proc[p].st = "running"

(***************************************************************************)
(* Processes: exit, fork, wait                                             *)
(***************************************************************************)
\* exit (the system call): the process becomes a zombie and its children
\* are handed to init (parent 0)
ExitProc(pr, p, status) ==
    [q \in Pids |->
       IF q = p THEN [NoProc EXCEPT !.st = "zombie", !.xstate = status,
                                    !.parent = pr[q].parent]
       ELSE IF pr[q].parent = p THEN [pr[q] EXCEPT !.parent = 0]
       ELSE pr[q]]

ClosedFds == [fd \in FdIdx |-> Closed]

\* the exec calls on record are those made for the command lines that some
\* shell process is still working on
LiveLines(pr) == {pr[q].line : q \in {r \in Pids : pr[r].st = "running"}}
Prune(log, pr) == SelectSeq(log, LAMBDA e : e.line \in LiveLines(pr))

\* the next state: only a running shell has memory of account, only a
\* live process has descriptors
Commit(pr, m, f, log) ==
    /\ proc' = pr
    /\ mem' = [q \in Pids |-> IF pr[q].st = "running" THEN m[q] ELSE InitShell]
    /\ fds' = [q \in Pids |-> IF pr[q].st \in {"running", "exec"} THEN f[q]
                              ELSE ClosedFds]
    /\ execLog' = Prune(log, pr)

UnusedPids == {q \in Pids : proc[q].st = "unused"}
NewPid == CHOOSE q \in UnusedPids : \A r \in UnusedPids : q <= r

\* fork() in p succeeds: the child is a copy of p that goes on at childpc
ForkChild(pr, p, childpc) ==
    [pr EXCEPT ![NewPid] = [pr[p] EXCEPT !.st = "running", !.parent = p,
                                         !.pc = childpc, !.xstate = 0]]

\* the children of p that wait can still return
Children(p) ==
    {q \in Pids : proc[q].parent = p
                  /\ proc[q].st \in {"running", "exec", "zombie"}}
Zombies(p) == {q \in Children(p) : proc[q].st = "zombie"}

\* wait() reaps zombie z: its slot in the process table is free again
Reap(pr, z) == [pr EXCEPT ![z] = NoProc]

(***************************************************************************)
(* main                                                                    *)
(***************************************************************************)
\* the loop test and the call of GetCommand: RunCommand follows when
\* GetCommand returns more than 0
MainGetCommandOf(p, streams) ==
    /\ Running(p) /\ proc[p].pc = "main_loop"
    /\ mem[p].should_run
    /\ \E stream \in streams :
         /\ stream # EndOfFile => nRead < MaxLines
         /\ stream # EndOfFile => Readable(fds[p], 0)
         /\ LET sh == GetCommand(mem[p], stream) IN
            Commit([proc EXCEPT ![p].pc = IF 0 < sh.cmdline.len
                                          THEN "run_command"
                                          ELSE "main_loop",
                                ![p].line = nRead + 1,
                                ![p].inp = stream,
                                ![p].returned = FALSE,
                                ![p].forkFailed = FALSE],
                   [mem EXCEPT ![p] = sh], fds, execLog)
    /\ nRead' = nRead + 1

MainGetCommand(p) == MainGetCommandOf(p, InputStreams)

\* the same step with the console delivering one of QuitStreams
MainGetCommandQuit(p) == MainGetCommandOf(p, QuitStreams)

\* the status main hands to exit
MainExitStatus(sh) == sh.last_exit_status

\* main, after the loop
MainExit(p) ==
    /\ Running(p) /\ proc[p].pc = "main_loop"
    /\ ~mem[p].should_run
    /\ Commit(ExitProc(proc, p, MainExitStatus(mem[p])), mem, fds, execLog)
    /\ UNCHANGED nRead

(***************************************************************************)
(* RunCommand                                                              *)
(***************************************************************************)
\* RunCommand returns r to main, which goes back to the loop test
Return(pr, p, r) ==
    [pr EXCEPT ![p].pc = "main_loop", ![p].ret = r, ![p].returned = TRUE,
               ![p].x = 0, ![p].pipeFD = <<-1, -1>>]

\* what strcmp reads through cmd->name: the string in the line buffer, or,
\* through a null pointer, anything at all (or the process traps)
NameRead(p, ptr) ==
    IF ptr = NULL
    THEN {[trap |-> TRUE, str |-> << >>]}
         \cup {[trap |-> FALSE, str |-> n] : n \in {QUIT, EXIT, CD, <<"?">>}}
    ELSE {[trap |-> FALSE, str |-> Str(p, ptr)]}

\* the string of argv[i] of a simple command of process p
Arg(p, cmd, i) == Str(p, cmd.argv[i])

\* RunQuit with the assignment to should_run left out
RunQuitKeepsRunning(sh, argc, arg1) ==
    IF argc > 1
    THEN [sh EXCEPT !.last_exit_status = atoi(arg1)]
    ELSE sh

\* the quit built-in: the shell state after it
RunQuit(sh, argc, arg1) ==
    IF argc > 1
    THEN [sh EXCEPT !.should_run = FALSE, !.last_exit_status = atoi(arg1)]
    ELSE [sh EXCEPT !.should_run = FALSE]

\* the exit built-in: the status it exits with
RunExitStatus(argc, arg1) == IF argc > 1 THEN atoi(arg1) ELSE 0

\* what RunCommand returns after runSimpleCommand returned status
RunCommandAfterSimple(status) == 0

\* what RunCommand returns after runPipelineCommnad returned status
RunCommandAfterPipeline(status) == 0

\* the value of pipeFD when pipe fails: the array is not initialised
Garbage == {<<a, b>> : a \in FdIdx \cup {-1}, b \in FdIdx \cup {-1}}

RunCommand(p) ==
    /\ Running(p) /\ proc[p].pc = "run_command"
    /\ UNCHANGED nRead
    /\ LET command == mem[p].cmd_data.cmd IN
       IF command.type = CMD_EMPTY
       THEN Commit(Return(proc, p, 1), mem, fds, execLog)
       ELSE IF command.type = CMD_INVALID
       THEN Commit(Return(proc, p, -1), mem, fds, execLog)
       ELSE IF command.type = CMD_SIMPLE
       THEN LET cmd == mem[p].cmd_data.simples[command.ptr[2]] IN
            \E name \in NameRead(p, cmd.name) :
              IF name.trap
              THEN Commit(ExitProc(proc, p, -1), mem, fds, execLog)
              ELSE IF name.str = QUIT
              THEN Commit(Return(proc, p, 0),
                          [mem EXCEPT ![p] =
                             RunQuit(mem[p], cmd.argc, Arg(p, cmd, 1))],
                          fds, execLog)
              ELSE IF name.str = EXIT
              THEN Commit(ExitProc(proc, p,
                             RunExitStatus(cmd.argc, Arg(p, cmd, 1))),
                          mem, fds, execLog)
              ELSE IF name.str = CD
              THEN \* chdir: the working directory is not modelled
                   Commit(Return(proc, p, 0), mem, fds, execLog)
              ELSE \* runSimpleCommand: fork
                   \/ /\ UnusedPids # {}
                      /\ Commit([ForkChild(proc, p, "simple_child")
                                    EXCEPT ![p].pc = "simple_wait"],
                                [mem EXCEPT ![NewPid] = mem[p]],
                                [fds EXCEPT ![NewPid] = fds[p]], execLog)
                   \/ \* fork fails: runSimpleCommand returns -1
                      Commit([Return(proc, p, RunCommandAfterSimple(-1))
                                 EXCEPT ![p].forkFailed = TRUE],
                             mem, fds, execLog)
       ELSE IF command.type = CMD_PIPELINE
       THEN \* runPipelineCommnad: pipe(pipeFD), then the fork loop
            \E g \in Garbage :
              LET r == pipe(fds[p], proc[p].line, g) IN
              /\ r.pipeFD # g => g = <<-1, -1>>
              /\ Commit([proc EXCEPT ![p].pc = "pipe_loop", ![p].x = 0,
                                     ![p].pipeFD = r.pipeFD],
                        mem, [fds EXCEPT ![p] = r.t], execLog)
       ELSE Commit(Return(proc, p, 0), mem, fds, execLog)

(***************************************************************************)
(* exec                                                                    *)
(***************************************************************************)
\* the record of an exec call of process p for the simple command cmd of
\* stage stage, with the descriptor table t the process has at the call
\* (with what the command tree of the process says of the command: the
\* number n of stages of its pipeline, 1 for a simple command on its own,
\* its redirections, and whether the top command has an error flag)
ExecCall(p, t, cmd, stage) ==
    [line |-> proc[p].line, stage |-> stage,
     name |-> Str(p, cmd.name),
     argv |-> [i \in 1 .. cmd.argc |-> Arg(p, cmd, i - 1)],
     fd0 |-> t[0], fd1 |-> t[1],
     n |-> IF mem[p].cmd_data.cmd.type = CMD_PIPELINE
           THEN mem[p].cmd_data.pipeline.len ELSE 1,
     redirIn |-> cmd.redirects[0].type # REDIRECT_NONE,
     redirOut |-> cmd.redirects[1].type # REDIRECT_NONE,
     error |-> mem[p].cmd_data.cmd.flag \cap ErrorMask # {}]

(***************************************************************************)
(* runSimpleCommand                                                        *)
(***************************************************************************)
\* close(target); dup(fd); close(fd)
Redirect(t, target, fd) == close(dup(close(t, target), fd), fd)

\* the child, up to its exit or its call of exec; okIn and okOut tell
\* whether the file system opens the paths
SimpleChildRun(t, cmd, buf, okIn, okOut) ==
    IF cmd.type = CMD_EMPTY THEN [do |-> "exit", status |-> 0, t |-> t]
    ELSE IF cmd.type = CMD_INVALID THEN [do |-> "exit", status |-> 1, t |-> t]
    ELSE
      LET hasIn == cmd.redirects[0].type = REDIRECT_INPUT
          in == open(t, IF cmd.redirects[0].path = NULL THEN << >>
                        ELSE CStr(buf, cmd.redirects[0].path),
                     O_RDONLY, okIn)
      IN
      IF hasIn /\ in.fd < 0 THEN [do |-> "exit", status |-> 1, t |-> t]
      ELSE
        LET t1 == IF hasIn THEN Redirect(in.t, 0, in.fd) ELSE t
            hasOut == cmd.redirects[1].type = REDIRECT_OUTPUT
            out == open(t1, IF cmd.redirects[1].path = NULL THEN << >>
                            ELSE CStr(buf, cmd.redirects[1].path),
                        O_WRONLY_CREATE, okOut)
        IN
        IF hasOut /\ out.fd < 0 THEN [do |-> "exit", status |-> 1, t |-> t1]
        ELSE [do |-> "exec", status |-> 1,
              t |-> IF ~hasOut THEN t1
                    ELSE IF out.fd # 1 THEN Redirect(out.t, 1, out.fd)
                    ELSE out.t]

SimpleChild(p) ==
    /\ Running(p) /\ proc[p].pc = "simple_child"
    /\ UNCHANGED nRead
    /\ \E okIn \in BOOLEAN, okOut \in BOOLEAN, execOk \in BOOLEAN :
         LET cmd == mem[p].cmd_data.simples[mem[p].cmd_data.cmd.ptr[2]]
             r == SimpleChildRun(fds[p], cmd, mem[p].cmdline.buffer,
                                 okIn, okOut)
         IN
         IF r.do = "exit"
         THEN Commit(ExitProc(proc, p, r.status), mem, fds, execLog)
         ELSE IF execOk
         THEN \* the program replaces the shell in this process
              Commit([proc EXCEPT ![p] = [NoProc EXCEPT !.st = "exec",
                                            !.parent = proc[p].parent]],
                     mem, [fds EXCEPT ![p] = r.t],
                     Append(execLog, ExecCall(p, r.t, cmd, 0)))
         ELSE \* exec returns: "Command not found!", exit(1)
              Commit(ExitProc(proc, p, 1), mem, fds,
                     Append(execLog, ExecCall(p, r.t, cmd, 0)))

\* the program that exec started ends, with some status
ProgramExit(p) ==
    /\ proc[p].st = "exec"
    /\ \E status \in {0, 1} :
         Commit(ExitProc(proc, p, status), mem, fds, execLog)
    /\ UNCHANGED nRead

\* the parent in runSimpleCommand: wait(&status); return status.  With no
\* child at all wait fails at once; with none ended the caller sleeps.
SimpleWait(p) ==
    /\ Running(p) /\ proc[p].pc = "simple_wait"
    /\ UNCHANGED nRead
    /\ IF Children(p) = {}
       THEN Commit(Return(proc, p, RunCommandAfterSimple(-1)),
                   mem, fds, execLog)
       ELSE \E z \in Zombies(p) :
              Commit(Return(Reap(proc, z), p,
                            RunCommandAfterSimple(proc[z].xstate)),
                     mem, fds, execLog)

(***************************************************************************)
(* runPipelineCommnad                                                      *)
(***************************************************************************)
\* the simple command of stage x of the pipeline of shell state sh
StageCommand(sh, x) ==
    sh.cmd_data.simples[sh.cmd_data.pipeline.commands[x].ptr[2]]

\* the loop over the three redirections of a first or last stage: the
\* descriptor table and fdIn / fdOut after the slots from rc on
RECURSIVE RedirectScan(_, _, _, _, _, _, _, _)
RedirectScan(t, cmd, buf, rc, type, mode, fd, ok) ==
    IF rc > 2 THEN [t |-> t, fd |-> fd]
    ELSE IF cmd.redirects[rc].type = type
    THEN IF cmd.redirects[rc].dest_fd >= 0
         THEN RedirectScan(t, cmd, buf, rc + 1, type, mode,
                           cmd.redirects[rc].dest_fd, ok)
         ELSE LET o == open(t, IF cmd.redirects[rc].path = NULL THEN << >>
                               ELSE CStr(buf, cmd.redirects[rc].path),
                            mode, ok)
              IN  RedirectScan(o.t, cmd, buf, rc + 1, type, mode, o.fd, ok)
    ELSE RedirectScan(t, cmd, buf, rc + 1, type, mode, fd, ok)

\* PipelineChildFds with a last stage that does not close the write end
\* of the pipe
PipelineChildFdsKeepsWriteEnd(t, x, numCommands, pipeFD, cmd, buf, ok) ==
    IF x = 0
    THEN LET t1 == close(close(dup(close(t, 1), pipeFD[2]), pipeFD[1]),
                         pipeFD[2])
             r == RedirectScan(t1, cmd, buf, 0, REDIRECT_INPUT, O_RDONLY,
                               -1, ok)
         IN  IF r.fd >= 0 THEN Redirect(r.t, 0, r.fd) ELSE r.t
    ELSE IF x = numCommands - 1
    THEN LET t1 == close(dup(close(t, 0), pipeFD[1]), pipeFD[1])
             r == RedirectScan(t1, cmd, buf, 0, REDIRECT_OUTPUT,
                               O_WRONLY_CREATE, -1, ok)
         IN  IF r.fd >= 0 THEN Redirect(r.t, 1, r.fd) ELSE r.t
    ELSE close(close(dup(close(dup(close(t, 1), pipeFD[1]), 0), pipeFD[2]),
                     pipeFD[1]),
               pipeFD[2])

\* the descriptor table of the child of stage x when it calls exec
PipelineChildFds(t, x, numCommands, pipeFD, cmd, buf, ok) ==
    IF x = 0
    THEN LET t1 == close(close(dup(close(t, 1), pipeFD[2]), pipeFD[1]),
                         pipeFD[2])
             r == RedirectScan(t1, cmd, buf, 0, REDIRECT_INPUT, O_RDONLY,
                               -1, ok)
         IN  IF r.fd >= 0 THEN Redirect(r.t, 0, r.fd) ELSE r.t
    ELSE IF x = numCommands - 1
    THEN LET t1 == close(close(dup(close(t, 0), pipeFD[1]), pipeFD[1]),
                         pipeFD[2])
             r == RedirectScan(t1, cmd, buf, 0, REDIRECT_OUTPUT,
                               O_WRONLY_CREATE, -1, ok)
         IN  IF r.fd >= 0 THEN Redirect(r.t, 1, r.fd) ELSE r.t
    ELSE close(close(dup(close(dup(close(t, 1), pipeFD[1]), 0), pipeFD[2]),
                     pipeFD[1]),
               pipeFD[2])

\* NumWaits with one wait less than the stages of the pipeline
NumWaitsOneLess(pipeline) == pipeline.len - 1

\* the number of wait calls after the fork loop
NumWaits(pipeline) == pipeline.len

\* one pass of the fork loop in the process that runs the loop
PipelineFork(p) ==
    /\ Running(p) /\ proc[p].pc = "pipe_loop"
    /\ proc[p].x < mem[p].cmd_data.pipeline.len
    /\ UNCHANGED nRead
    /\ \/ /\ UnusedPids # {}
          /\ Commit([ForkChild(proc, p, "pipe_child")
                        EXCEPT ![p].x = proc[p].x + 1],
                    [mem EXCEPT ![NewPid] = mem[p]],
                    [fds EXCEPT ![NewPid] = fds[p]], execLog)
       \/ \* fork fails: the result is only compared with 0
          Commit([proc EXCEPT ![p].x = proc[p].x + 1], mem, fds, execLog)

\* the process goes on after the wait loop has made x passes
AfterWait(pr, p, x) ==
    IF x >= NumWaits(mem[p].cmd_data.pipeline)
    THEN Return(pr, p, RunCommandAfterPipeline(0))
    ELSE [pr EXCEPT ![p].pc = "pipe_wait", ![p].x = x]

\* after the fork loop: both ends of the pipe are closed, the waits begin
PipelineClose(p) ==
    /\ Running(p) /\ proc[p].pc = "pipe_loop"
    /\ proc[p].x >= mem[p].cmd_data.pipeline.len
    /\ UNCHANGED nRead
    /\ Commit(AfterWait(proc, p, 0), mem,
              [fds EXCEPT ![p] = close(close(fds[p], proc[p].pipeFD[1]),
                                       proc[p].pipeFD[2])],
              execLog)

\* one pass of the wait loop: wait(0)
PipelineWait(p) ==
    /\ Running(p) /\ proc[p].pc = "pipe_wait"
    /\ UNCHANGED nRead
    /\ IF Children(p) = {}
       THEN Commit(AfterWait(proc, p, proc[p].x + 1), mem, fds, execLog)
       ELSE \E z \in Zombies(p) :
              Commit(AfterWait(Reap(proc, z), p, proc[p].x + 1),
                     mem, fds, execLog)

\* the child of stage x: the descriptors, then exec; when exec returns the
\* child leaves the if statement and goes on with the fork loop
PipelineChild(p) ==
    /\ Running(p) /\ proc[p].pc = "pipe_child"
    /\ UNCHANGED nRead
    /\ \E ok \in BOOLEAN, execOk \in BOOLEAN :
         LET x == proc[p].x
             cmd == StageCommand(mem[p], x)
             t == PipelineChildFds(fds[p], x, mem[p].cmd_data.pipeline.len,
                                   proc[p].pipeFD, cmd,
                                   mem[p].cmdline.buffer, ok)
         IN  Commit(IF execOk
                    THEN [proc EXCEPT ![p] = [NoProc EXCEPT !.st = "exec",
                                                !.parent = proc[p].parent]]
                    ELSE [proc EXCEPT ![p].pc = "pipe_loop", ![p].x = x + 1],
                    mem, [fds EXCEPT ![p] = t],
                    Append(execLog, ExecCall(p, t, cmd, x)))

(***************************************************************************)
(* The system                                                              *)
(***************************************************************************)
Next ==
    \E p \in Pids :
       \/ MainGetCommand(p)
       \/ MainExit(p)
       \/ RunCommand(p)
       \/ SimpleChild(p)
       \/ SimpleWait(p)
       \/ PipelineFork(p)
       \/ PipelineClose(p)
       \/ PipelineChild(p)
       \/ PipelineWait(p)
       \/ ProgramExit(p)

Spec == Init /\ [][Next]_vars

\* every process that can take a step of the shell's own code takes it:
\* the kernel schedules every runnable process.  No fairness is assumed of
\* the console (MainGetCommand) nor of the programs exec has started.
ShellStep(p) ==
    \/ MainExit(p)
    \/ RunCommand(p)
    \/ SimpleChild(p)
    \/ SimpleWait(p)
    \/ PipelineFork(p)
    \/ PipelineClose(p)
    \/ PipelineChild(p)
    \/ PipelineWait(p)

QuitNext ==
    \E p \in Pids :
       \/ MainGetCommandQuit(p)
       \/ MainExit(p)
       \/ RunCommand(p)
       \/ SimpleChild(p)
       \/ SimpleWait(p)
       \/ PipelineFork(p)
       \/ PipelineClose(p)
       \/ PipelineChild(p)
       \/ PipelineWait(p)
       \/ ProgramExit(p)

FairSpec ==
    Init /\ [][QuitNext]_vars /\ \A p \in Pids : WF_vars(ShellStep(p))

(***************************************************************************)
(* The lexer and the parser on their own: the shell starts with one of     *)
(* LexStreams pending on the console, and GetCommand reads and parses it.  *)
(***************************************************************************)
\* length of the lines over LexAlphabet, and over FullAlphabet
MaxLexLen == 4
MaxFullLen == 3

LexAlphabet == {"a", " ", ">", "|", ";"}
FullAlphabet == {"a", "b", " ", "\t", "<", ">", "|", "&", ";"}

\* the strings over alphabet of at most n characters
Strings(alphabet, n) == UNION {[1 .. k -> alphabet] : k \in 0 .. n}

\* n times the character c
Repeat(c, n) == [k \in 1 .. n |-> c]

RECURSIVE PipeLine(_)
\* a pipeline of n stages of one letter
PipeLine(n) == IF n <= 1 THEN <<"a">> ELSE <<"a", "|">> \o PipeLine(n - 1)

LexLines ==
    Strings(LexAlphabet, MaxLexLen)
    \cup Strings(FullAlphabet, MaxFullLen)
    \cup {PipeLine(n) : n \in 1 .. (TSH_MAX_PIPELINE_LENGTH + 1)}
    \cup {Repeat(";", n) : n \in {TSH_MAX_NUM_TOKENS, TSH_MAX_NUM_TOKENS + 1}}
    \cup {Repeat("a", n) : n \in (TSH_MAX_CMD_LINE_LENGTH - 1)
                                  .. (TSH_MAX_CMD_LINE_LENGTH + 1)}

LexStreams == {EndOfFile} \cup {l \o <<"\n">> : l \in LexLines}

LexInit ==
    /\ \E stream \in LexStreams :
         proc = [p \in Pids |->
                   IF p = 1 THEN [NoProc EXCEPT !.st = "running",
                                                !.pc = "main_loop",
                                                !.inp = stream]
                   ELSE NoProc]
    /\ mem = [p \in Pids |-> InitShell]
    /\ fds = [p \in Pids |-> [fd \in FdIdx |-> IF fd <= 2 THEN Console ELSE Closed]]
    /\ nRead = 0
    /\ execLog = << >>

\* main calls GetCommand, which reads what is pending on the console
LexGetCommand(p) ==
    /\ nRead = 0
    /\ MainGetCommandOf(p, {proc[p].inp})

LexNext == \E p \in Pids : LexGetCommand(p)

LexSpec == LexInit /\ [][LexNext]_vars

(***************************************************************************)
(* The executor on command lines with redirections                         *)
(***************************************************************************)
\* an appending output redirection of a simple command, a simple command
\* with both redirections, an input redirection of the first stage and an
\* output redirection of the last stage of a pipeline, and a pipeline of
\* three stages
RedirLines ==
    { <<"a", ">", ">", "f">>,
      <<"a", "<", "i", ">", "o">>,
      <<"a", "<", "i", "|", "b">>,
      <<"a", "|", "b", ">", "o">>,
      <<"a", "|", "b", "|", "c">> }
RedirStreams ==
    {EndOfFile}
    \cup {l \o <<"\n">> :
            l \in {r \in RedirLines : Len(r) < TSH_MAX_CMD_LINE_LENGTH}}

\* the step of main with the console delivering one of RedirStreams
MainGetCommandRedir(p) == MainGetCommandOf(p, RedirStreams)

RedirNext ==
    \E p \in Pids :
       \/ MainGetCommandRedir(p)
       \/ MainExit(p)
       \/ RunCommand(p)
       \/ SimpleChild(p)
       \/ SimpleWait(p)
       \/ PipelineFork(p)
       \/ PipelineClose(p)
       \/ PipelineChild(p)
       \/ PipelineWait(p)
       \/ ProgramExit(p)

RedirSpec == Init /\ [][RedirNext]_vars

(***************************************************************************)
(* Properties                                                              *)
(***************************************************************************)
\* the command line of shell process p has been parsed: tokens and command
\* tree in its memory are those of the line it read last
Parsed(p) == Running(p) /\ 0 < mem[p].cmdline.len

TokenTypes(p) == [i \in DOMAIN mem[p].tokens |-> mem[p].tokens[i].type]
HasPipe(p) == \E i \in DOMAIN mem[p].tokens : TokenTypes(p)[i] = TOKEN_PIPE
FirstTokenIsWord(p) ==
    mem[p].tokens # << >> /\ TokenTypes(p)[1] = TOKEN_WORD

\* the number of Word tokens the line of p starts with
LeadingWords(p) ==
    Cardinality({n \in DOMAIN mem[p].tokens :
                   \A i \in 1 .. n : TokenTypes(p)[i] = TOKEN_WORD})

\* the top command of p and the simple command it points to
TopCommand(p) == mem[p].cmd_data.cmd
TopSimple(p) == mem[p].cmd_data.simples[TopCommand(p).ptr[2]]

\* the simple commands of the command tree of p
TreeSimples(p) ==
    IF TopCommand(p).type = CMD_PIPELINE
    THEN {StageCommand(mem[p], x) :
             x \in 0 .. (mem[p].cmd_data.pipeline.len - 1)}
    ELSE IF TopCommand(p).type = CMD_SIMPLE THEN {TopSimple(p)}
    ELSE {}

\* C1: a shell process that has read an empty line (a lone newline) has an
\* Empty command, gets 1 from RunCommand, and keeps should_run true.
C1_EmptyLineIsEmptyCommand ==
    \A p \in Pids :
       (Running(p) /\ proc[p].inp = <<"\n">>)
       => /\ mem[p].should_run
          /\ proc[p].pc = "run_command" => TopCommand(p).type = CMD_EMPTY
          /\ proc[p].returned => proc[p].ret = 1

\* C2: for a non-empty line whose first token is not a Word the top command
\* is Empty, and RunCommand returns 1 without a fork: the process is about
\* to run the command or back in the loop of main, with should_run true.
C2_NoWordIsEmptyCommand ==
    \A p \in Pids :
       (Parsed(p) /\ ~FirstTokenIsWord(p))
       => /\ TopCommand(p).type = CMD_EMPTY
          /\ proc[p].pc \in {"run_command", "main_loop"}
          /\ proc[p].returned => proc[p].ret = 1
          /\ mem[p].should_run

\* the step in which process p runs the quit command
QuitStep(p) ==
    /\ Running(p) /\ proc[p].pc = "run_command"
    /\ TopCommand(p).type = CMD_SIMPLE
    /\ TopSimple(p).name # NULL
    /\ Str(p, TopSimple(p).name) = QUIT
    /\ proc'[p].pc # proc[p].pc

\* C3: the step that runs quit sets should_run to false and
\* last_exit_status to atoi(argv[1]) when argc > 1 (and else leaves it),
\* forks no child and does not end the process; a shell whose should_run is
\* false reads no further line, ends only with exit status
\* last_exit_status, and does end.
C3_QuitStopsTheShell ==
    /\ [][\A p \in Pids :
            /\ QuitStep(p)
               => /\ ~mem'[p].should_run
                  /\ mem'[p].last_exit_status =
                       IF TopSimple(p).argc > 1
                       THEN atoi(Arg(p, TopSimple(p), 1))
                       ELSE mem[p].last_exit_status
                  /\ proc'[p].st = "running" /\ proc'[p].pc = "main_loop"
                  /\ \A q \in Pids : proc[q].st = "unused"
                                     => proc'[q].st = "unused"
            /\ (Running(p) /\ ~mem[p].should_run)
               => \/ /\ proc'[p].st = "running"
                     /\ proc'[p].line = proc[p].line
                     /\ mem'[p] = mem[p]
                  \/ /\ proc'[p].st = "zombie"
                     /\ proc'[p].xstate = mem[p].last_exit_status]_vars
    /\ \A p \in Pids : (Running(p) /\ ~mem[p].should_run) ~> ~Running(p)

\* C3, the case: the first shell has ended with the status of "quit 3"
C3_Witness == proc[1].st = "zombie" /\ proc[1].xstate = 3

\* C4: at every exec call of a stage of a pipeline of two or more stages,
\* descriptor 1 of a stage that has a right neighbour is the write end, and
\* descriptor 0 of a stage that has a left neighbour is the read end, of the
\* pipe of the pipeline (unless the stage redirects that descriptor).
C4_AdjacentStagesShareAPipe ==
    \A i \in DOMAIN execLog :
       LET e == execLog[i] IN
       e.n >= 2
       => /\ (e.stage < e.n - 1 /\ ~e.redirOut)
             => e.fd1 = <<"pipe", e.line, "w">>
          /\ (e.stage > 0 /\ ~e.redirIn)
             => e.fd0 = <<"pipe", e.line, "r">>

\* C5: exactly one exec call per simple command of a command tree without
\* error flag; hence never two exec calls for the same simple command of
\* the same command line.
C5_OneExecPerSimpleCommand ==
    \A i \in DOMAIN execLog : \A j \in DOMAIN execLog :
       (i # j /\ ~execLog[i].error)
       => ~(execLog[i].line = execLog[j].line
            /\ execLog[i].stage = execLog[j].stage)

\* C6: a shell process at the loop test of main, about to prompt and read,
\* has no child left: every child it forked has ended and has been reaped.
C6_NoChildLeftAtPrompt ==
    \A p \in Pids :
       (Running(p) /\ proc[p].pc = "main_loop") => Children(p) = {}

\* C6, the case: a shell is back at the prompt after a pipeline for which
\* two exec calls were made by children
C6_Witness ==
    \E p \in Pids :
       /\ Running(p) /\ proc[p].pc = "main_loop" /\ proc[p].returned
       /\ TopCommand(p).type = CMD_PIPELINE
       /\ \E i \in DOMAIN execLog : \E j \in DOMAIN execLog :
            /\ execLog[i].line = proc[p].line /\ execLog[i].stage = 0
            /\ execLog[j].line = proc[p].line /\ execLog[j].stage = 1

\* C7: RunCommand returns 1 for an Empty command, -1 for an Invalid command
\* and when the fork for an external simple command fails, 0 otherwise.
C7_RunCommandStatus ==
    \A p \in Pids :
       (Running(p) /\ proc[p].returned)
       => proc[p].ret =
            IF TopCommand(p).type = CMD_EMPTY THEN 1
            ELSE IF TopCommand(p).type = CMD_INVALID \/ proc[p].forkFailed
            THEN -1
            ELSE 0

\* C8: a simple command (a line without pipe) of exactly MAX_ARGS words
\* gets no error flag; one that starts with MAX_ARGS + 1 words or more gets
\* TOO_MANY_ARGUMENTS.
C8_TooManyArguments ==
    \A p \in Pids :
       (Parsed(p) /\ ~HasPipe(p))
       => /\ (LeadingWords(p) = TSH_MAX_NUM_ARGUMENTS
              /\ Len(mem[p].tokens) = TSH_MAX_NUM_ARGUMENTS)
             => TopSimple(p).flag \cap ErrorMask = {}
          /\ LeadingWords(p) > TSH_MAX_NUM_ARGUMENTS
             => CMD_TOO_MANY_ARGUMENTS \subseteq TopSimple(p).flag

\* a redirection token, a Word (the pair is complete) and another Word
WordAfterRedirection(p) ==
    \E i \in DOMAIN mem[p].tokens :
       /\ i + 2 \in DOMAIN mem[p].tokens
       /\ TokenTypes(p)[i] \in {TOKEN_REDIRECT_INPUT, TOKEN_REDIRECT_OUTPUT,
                                TOKEN_REDIRECT_OUTPUT_APPEND}
       /\ TokenTypes(p)[i + 1] = TOKEN_WORD
       /\ TokenTypes(p)[i + 2] = TOKEN_WORD

\* C9: a simple command (a line without pipe) with a Word after a complete
\* redirection pair gets ARGUMENT_AFTER_REDIRECT and SYNTAX_ERROR.
C9_ArgumentAfterRedirect ==
    \A p \in Pids :
       (Parsed(p) /\ ~HasPipe(p) /\ FirstTokenIsWord(p)
        /\ WordAfterRedirection(p))
       => (CMD_ARGUMENT_AFTER_REDIRECT \cup CMD_SYNTAX_ERROR)
             \subseteq TopSimple(p).flag

\* C10: every error bit of a simple command of the tree is set in the flag
\* of the pipeline that holds it and in the flag of the top command.
C10_FlagsPropagate ==
    \A p \in Pids :
       Parsed(p)
       => \A simple \in TreeSimples(p) :
             /\ (simple.flag \cap ErrorMask) \subseteq TopCommand(p).flag
             /\ TopCommand(p).type = CMD_PIPELINE
                => (simple.flag \cap ErrorMask)
                      \subseteq mem[p].cmd_data.pipeline.flag

\* the line a process has read last, without its newline
LineText(p) ==
    IF proc[p].inp # << >> /\ proc[p].inp[Len(proc[p].inp)] = "\n"
    THEN SubSeq(proc[p].inp, 1, Len(proc[p].inp) - 1)
    ELSE proc[p].inp

\* C11: Tokenize stores at most MAX_TOKENS tokens: the token list is never
\* longer than the token array, so every index written is below MAX_TOKENS.
C11_AtMostMaxTokens ==
    \A p \in Pids : Len(mem[p].tokens) <= TSH_MAX_NUM_TOKENS

\* what a char pointer into buffer buf refers to: nothing, or a string
Referent(buf, ptr) ==
    IF ptr = NULL THEN <<"null">> ELSE <<"string", CStr(buf, ptr)>>

\* the structure of a simple command: type, flag, name, argc and argv, and
\* the three redirection slots
SimpleView(buf, simple) ==
    [type |-> simple.type,
     flag |-> simple.flag,
     name |-> Referent(buf, simple.name),
     argc |-> simple.argc,
     argv |-> [i \in 1 .. simple.argc |-> Referent(buf, simple.argv[i - 1])],
     redirects |-> [i \in 0 .. 2 |->
                      [type |-> simple.redirects[i].type,
                       source_fd |-> simple.redirects[i].source_fd,
                       dest_fd |-> simple.redirects[i].dest_fd,
                       path |-> Referent(buf, simple.redirects[i].path)]]]

\* the structure of a Command node that refers to a simple command
StageView(buf, d, command) ==
    [type |-> command.type,
     flag |-> command.flag,
     simple |-> IF command.ptr[1] = "simple"
                THEN SimpleView(buf, d.simples[command.ptr[2]])
                ELSE << >>]

\* the structure of the command tree of command data d: the top command
\* and what it refers to, a simple command or the pipeline with its stages
TreeView(buf, d) ==
    IF d.cmd.type = CMD_PIPELINE
    THEN [type |-> d.cmd.type,
          flag |-> d.cmd.flag,
          pipeline |-> [type |-> d.pipeline.type,
                        flag |-> d.pipeline.flag,
                        len |-> d.pipeline.len,
                        commands |-> [x \in 0 .. (d.pipeline.len - 1) |->
                                        StageView(buf, d, d.pipeline.commands[x])]]]
    ELSE StageView(buf, d, d.cmd)

\* the tree the parser makes of the token list of p when it starts from the
\* command data of a shell that has parsed nothing yet
FirstParse(p) ==
    ParseCommand(mem[p].tokens, 0, Len(mem[p].tokens), ZeroCommandData)

\* C12: parsing is a function of the token sequence only: the command tree
\* of every line is the tree that the parser makes of the same token list in
\* the first iteration of the loop.
C12_ParseDependsOnTokensOnly ==
    \A p \in Pids :
       Parsed(p)
       => TreeView(mem[p].cmdline.buffer, mem[p].cmd_data)
            = TreeView(mem[p].cmdline.buffer, FirstParse(p))

\* the token list of p as the lexer's result: the type of each token and,
\* for a Word, its value
LexTokens(p) ==
    [i \in DOMAIN mem[p].tokens |->
       [type |-> mem[p].tokens[i].type,
        word |-> IF mem[p].tokens[i].type = TOKEN_WORD
                 THEN Str(p, mem[p].tokens[i].value)
                 ELSE << >>]]

\* the reference lexer: the token kind of a symbol character
RefSymbol(c) ==
    IF c = "<" THEN TOKEN_REDIRECT_INPUT
    ELSE IF c = ">" THEN TOKEN_REDIRECT_OUTPUT
    ELSE IF c = "|" THEN TOKEN_PIPE
    ELSE IF c = "&" THEN TOKEN_BACKGROUND
    ELSE TOKEN_LIST

\* the reference lexer: the length of the run of characters that are
\* neither whitespace nor symbol at the head of s
RECURSIVE RefRun(_)
RefRun(s) ==
    IF s = << >> \/ Head(s) \in Whitespace \/ Head(s) \in Symbols
    THEN 0
    ELSE 1 + RefRun(Tail(s))

\* the reference lexer: the token sequence of the characters s
RECURSIVE RefLex(_)
RefLex(s) ==
    IF s = << >> THEN << >>
    ELSE IF Head(s) \in Whitespace THEN RefLex(Tail(s))
    ELSE IF Len(s) >= 2 /\ s[1] = ">" /\ s[2] = ">"
    THEN <<[type |-> TOKEN_REDIRECT_OUTPUT_APPEND, word |-> << >>]>>
         \o RefLex(SubSeq(s, 3, Len(s)))
    ELSE IF Head(s) \in Symbols
    THEN <<[type |-> RefSymbol(Head(s)), word |-> << >>]>> \o RefLex(Tail(s))
    ELSE <<[type |-> TOKEN_WORD, word |-> SubSeq(s, 1, RefRun(s))]>>
         \o RefLex(SubSeq(s, RefRun(s) + 1, Len(s)))

\* the line of p fits in the line buffer and has no more tokens than the
\* token array holds
WithinCaps(p) ==
    /\ Len(LineText(p)) < TSH_MAX_CMD_LINE_LENGTH
    /\ Len(RefLex(LineText(p))) <= TSH_MAX_NUM_TOKENS

\* C13: for every line within the caps the token list that Tokenize yields
\* is the token sequence of the reference lexer: maximal runs are Words
\* with the run as value, ">>" is one RedirOutAppend, every other symbol
\* character is one token of its kind, whitespace yields no token.
C13_TokenizeIsReferenceLexer ==
    \A p \in Pids :
       (Parsed(p) /\ WithinCaps(p)) => LexTokens(p) = RefLex(LineText(p))

\* C13, the case: a line in which ">>" follows a word directly and a pipe
\* follows the ">>" has been tokenized
C13_Witness ==
    /\ Parsed(1)
    /\ LineText(1) = <<"a", ">", ">", "|">>
    /\ Len(mem[1].tokens) = 3

\* the simple command, in the command tree of shell process p, that the
\* exec call of record e was made for
RecordCommand(p, e) ==
    IF TopCommand(p).type = CMD_PIPELINE
    THEN StageCommand(mem[p], e.stage)
    ELSE TopSimple(p)

\* shell process p is still working on the command line of exec record e
WorksOn(p, e) ==
    /\ Running(p) /\ proc[p].line = e.line
    /\ TopCommand(p).type \in {CMD_SIMPLE, CMD_PIPELINE}

\* C14: a child whose input or output redirection cannot be opened never
\* calls exec: at every exec call of a simple command or first stage with
\* an input redirection descriptor 0 is the file, and at every exec call of
\* a simple command or last stage with an output redirection descriptor 1
\* is the file.
C14_NoExecAfterOpenFailure ==
    \A i \in DOMAIN execLog : \A p \in Pids :
       WorksOn(p, execLog[i])
       => /\ (execLog[i].stage = 0
              /\ RecordCommand(p, execLog[i]).redirects[0].type = REDIRECT_INPUT)
             => execLog[i].fd0[1] = "file"
          /\ (execLog[i].stage = execLog[i].n - 1
              /\ RecordCommand(p, execLog[i]).redirects[1].type = REDIRECT_OUTPUT)
             => execLog[i].fd1[1] = "file"

\* C15: for an external simple command whose redirection slot 1 is an
\* Append with a path, descriptor 1 at the exec call is that path, opened
\* write-only with create.
C15_AppendOpensThePath ==
    \A i \in DOMAIN execLog : \A p \in Pids :
       (/\ WorksOn(p, execLog[i])
        /\ TopCommand(p).type = CMD_SIMPLE
        /\ TopSimple(p).redirects[1].type = REDIRECT_APPEND
        /\ TopSimple(p).redirects[1].path # NULL)
       => execLog[i].fd1 = <<"file", Str(p, TopSimple(p).redirects[1].path),
                             O_WRONLY_CREATE>>

\* C16: the length that ReadLine leaves in the line is an index of the
\* buffer, so that the NUL it stores at buffer[len] is inside the buffer.
C16_TerminatorInsideBuffer ==
    \A p \in Pids : Running(p) => mem[p].cmdline.len \in BufIdx

\* C17: every stage of a Pipeline that the parser produces for a line
\* within the caps is a simple command of type Simple with a name.
C17_StagesAreGenuineSimples ==
    \A p \in Pids :
       (Parsed(p) /\ WithinCaps(p) /\ TopCommand(p).type = CMD_PIPELINE)
       => \A s \in TreeSimples(p) : s.type = CMD_SIMPLE /\ s.name # NULL

\* the descriptors open in table t
OpenFds(t) == {fd \in FdIdx : IsOpen(t, fd)}

\* C18: when RunCommand has returned in the original shell, the shell has
\* the descriptors it started with (its table is the one of Init), and a
\* process that has called exec has no descriptor open but 0, 1 and 2:
\* the pipe descriptors and the descriptors of opened files are closed.
C18_DescriptorsRestored ==
    /\ (Running(1) /\ proc[1].pc = "main_loop")
       => fds[1] = [fd \in FdIdx |-> IF fd <= 2 THEN Console ELSE Closed]
    /\ \A p \in Pids : proc[p].st = "exec" => OpenFds(fds[p]) \subseteq 0 .. 2

\* RunCommand has returned in the original shell from a pipeline whose
\* first stage has called exec and whose last stage has called exec with
\* the read end of the pipe as descriptor 0 and an opened file as
\* descriptor 1
C18_Witness ==
    /\ Running(1) /\ proc[1].pc = "main_loop" /\ proc[1].returned
    /\ TopCommand(1).type = CMD_PIPELINE
    /\ \E i, j \in DOMAIN execLog :
         /\ execLog[i].line = proc[1].line /\ execLog[i].stage = 0
         /\ execLog[j].line = proc[1].line /\ execLog[j].stage = 1
         /\ execLog[j].fd0[1] = "pipe" /\ execLog[j].fd1[1] = "file"

\* the number of stages the line of p asks for: one more than its pipes
NumStages(p) ==
    Cardinality({i \in DOMAIN mem[p].tokens : TokenTypes(p)[i] = TOKEN_PIPE})
    + 1

\* the flag bits that report a length error
LengthFlags == CMD_PIPELINE_TOO_LONG \cup CMD_TOO_MANY_COMMANDS

\* C19: for a line within the caps the parser leaves at most
\* TSH_MAX_PIPELINE_LENGTH stages in the pipeline and at most
\* TSH_MAX_CMD_LIST_LENGTH simple commands in the table; a line of exactly
\* TSH_MAX_PIPELINE_LENGTH stages has no length flag on the pipeline or on
\* the top command, and a line of more stages has CMD_PIPELINE_TOO_LONG on
\* both.
C19_PipelineLengthEnforced ==
    \A p \in Pids :
       (Parsed(p) /\ WithinCaps(p))
       => /\ mem[p].cmd_data.pipeline.len <= TSH_MAX_PIPELINE_LENGTH
          /\ mem[p].cmd_data.n_simples <= TSH_MAX_CMD_LIST_LENGTH
          /\ NumStages(p) = TSH_MAX_PIPELINE_LENGTH
             => /\ mem[p].cmd_data.pipeline.len = TSH_MAX_PIPELINE_LENGTH
                /\ mem[p].cmd_data.pipeline.flag \cap LengthFlags = {}
                /\ TopCommand(p).flag \cap LengthFlags = {}
          /\ NumStages(p) > TSH_MAX_PIPELINE_LENGTH
             => /\ CMD_PIPELINE_TOO_LONG \subseteq mem[p].cmd_data.pipeline.flag
                /\ CMD_PIPELINE_TOO_LONG \subseteq TopCommand(p).flag

\* a line of one stage more than the pipeline holds has been parsed: the
\* pipeline is full and flagged
C19_Witness ==
    /\ Parsed(1) /\ WithinCaps(1)
    /\ NumStages(1) = TSH_MAX_PIPELINE_LENGTH + 1
    /\ mem[1].cmd_data.pipeline.len = TSH_MAX_PIPELINE_LENGTH
    /\ CMD_PIPELINE_TOO_LONG \subseteq TopCommand(1).flag

\* C20: a process other than the original shell never is in the loop of
\* main, where the shell prompts and reads a command line: a child that
\* the executor forked is replaced by exec or exits.
C20_ChildrenNeverReachTheLoop ==
    \A p \in Pids \ {1} : Running(p) => proc[p].pc # "main_loop"
====
